---- MODULE Spec2Model ----
(***************************************************************************)
(* Model of FTT.py: the TestFeedbackTracker test case class and its run    *)
(* through unittest.main().                                                *)
(*                                                                         *)
(* The state is the class attribute database_connection, the attribute    *)
(* feedback_entry of each TestCase instance (unittest builds one instance  *)
(* per test method), the locals the check bodies leave behind, the         *)
(* verdicts collected by the runner, the runner's position and the process *)
(* exit status.  The runtime's inputs (the interpreter version and the     *)
(* wall time the 0.1 s sleep really takes) are drawn in Init.              *)
(*                                                                         *)
(* The order of the checks is left open: the runner may pick any check     *)
(* that has not run yet, which covers the default alphabetical order and   *)
(* every other order a loader may be configured with.                      *)
(***************************************************************************)
EXTENDS Integers, Sequences, FiniteSets, TLC

(***************************************************************************)
(* Bounds of the model.                                                    *)
(***************************************************************************)
\* The sleep may overshoot by up to MaxDelaySteps multiples of its length.
MaxDelaySteps == 4
\* Highest minor version of the Python 3 interpreters considered.
MaxMinor == 7

(***************************************************************************)
(* Program constants.                                                      *)
(***************************************************************************)
\* "student_id": 12345, and the identifier passed to get_feedback.
StudentId == 12345
\* time.sleep(0.1), in milliseconds.
SleepMs == 100
\* assertLess(end_time - start_time, 0.5), in milliseconds.
ThresholdMs == 500
\* unittest.mock, imported on line 2, exists from Python 3.3 on.
MinMinor == 3

\* The tuple (3, 6) of test_system_compatibility.
MinVersion == <<3, 6>>

\* The eight test methods of TestFeedbackTracker.
Tests ==
    { "test_add_feedback", "test_remove_feedback", "test_database_integration",
      "test_feedback_retrieval", "test_feedback_submission_time",
      "test_sql_injection_protection", "test_system_compatibility",
      "test_previous_bug_fix" }

(***************************************************************************)
(* Python values.  Every value is a record with a tag, so that values of   *)
(* different Python types compare unequal.                                 *)
(***************************************************************************)
\* An attribute or local that has not been assigned.
Unset == [tag |-> "unset"]
PyNone == [tag |-> "None"]
PyBool(b) == [tag |-> "bool", b |-> b]
PyStr(s) == [tag |-> "str", s |-> s]
PyInt(n) == [tag |-> "int", n |-> n]
\* A feedback dict with its three keys.
FeedbackDict(sid, course, fb) ==
    [tag |-> "dict", student_id |-> sid, course |-> course, feedback |-> fb]
\* The child mock a MagicMock hands out when no return value was configured.
ChildMock == [tag |-> "MagicMock"]
\* unittest.mock.DEFAULT: "no return value configured".
DEFAULT == [tag |-> "DEFAULT"]

\* The record setUp creates.
Fixture == FeedbackDict(StudentId, "CS101", "Great course!")
\* The marker setUpClass stores.
MockConnection == PyStr("Mock Database Connection")
\* The payload of test_sql_injection_protection.
malicious_input == "DROP TABLE feedback; --"

\* Python truthiness, as assertTrue / assertFalse apply it.
Truthy(v) ==
    CASE v.tag = "bool" -> v.b
      [] v.tag = "None" -> FALSE
      [] v.tag = "str" -> v.s # ""
      [] v.tag = "int" -> v.n # 0
      [] OTHER -> TRUE

\* Python's tuple comparison a >= b: decided by the first position where the
\* tuples differ, by length when one is a prefix of the other.
TupleGE(a, b) ==
    LET n == IF Len(a) < Len(b) THEN Len(a) ELSE Len(b)
        diff == { i \in 1..n : a[i] # b[i] }
    IN  IF diff = {}
        THEN Len(a) >= Len(b)
        ELSE LET i == CHOOSE j \in diff : \A k \in diff : j <= k
             IN  a[i] > b[i]

(***************************************************************************)
(* MagicMock.  A mock holds, per method, a configured return value and a   *)
(* side effect (an iterator over a list, when set), and records its calls. *)
(***************************************************************************)
Methods == { "insert_feedback", "get_feedback", "add_feedback" }
NoSideEffect == [set |-> FALSE, items |-> <<>>]

\* mock_db = MagicMock()
MagicMock ==
    [ return_value |-> [m \in Methods |-> DEFAULT],
      side_effect |-> [m \in Methods |-> NoSideEffect],
      call_args_list |-> <<>> ]

\* mock.<method>.return_value = v
SetReturnValue(mock, method, v) ==
    [mock EXCEPT !.return_value[method] = v]

\* mock.<method>.side_effect = [items...]
SetSideEffect(mock, method, items) ==
    [mock EXCEPT !.side_effect[method] = [set |-> TRUE, items |-> items]]

\* A mutant of MockCall that never advances the side-effect iterator.
MockCallNoAdvance(mock, method, arg) ==
    LET se == mock.side_effect[method]
        rv == mock.return_value[method]
        logged == [mock EXCEPT !.call_args_list = Append(@, <<method, arg>>)]
    IN  IF se.set
        THEN IF se.items = <<>>
             THEN [ret |-> PyNone, raised |-> TRUE, mock |-> logged]
             ELSE [ret |-> Head(se.items), raised |-> FALSE, mock |-> logged]
        ELSE [ret |-> IF rv = DEFAULT THEN ChildMock ELSE rv,
              raised |-> FALSE, mock |-> logged]

\* A mutant of MockCall that computes the answer from the argument: a dict
\* whose feedback is the SQL payload is refused, anything else is accepted.
MockCallByArgument(mock, method, arg) ==
    LET logged == [mock EXCEPT !.call_args_list = Append(@, <<method, arg>>)]
    IN  [ret |-> PyBool(~(arg.tag = "dict" /\ arg.feedback = malicious_input)),
         raised |-> FALSE, mock |-> logged]

\* A mutant of MockCall that ignores the configured return value.
MockCallIgnoreReturnValue(mock, method, arg) ==
    LET se == mock.side_effect[method]
        logged == [mock EXCEPT !.call_args_list = Append(@, <<method, arg>>)]
    IN  IF se.set /\ se.items # <<>>
        THEN [ret |-> Head(se.items), raised |-> FALSE,
              mock |-> [logged EXCEPT !.side_effect[method].items = Tail(@)]]
        ELSE [ret |-> ChildMock, raised |-> se.set, mock |-> logged]

\* mock.<method>(arg): the call is recorded; a side-effect iterator yields its
\* next item (StopIteration once exhausted); otherwise the configured return
\* value, or a child mock when none was configured.
MockCall(mock, method, arg) ==
    LET se == mock.side_effect[method]
        rv == mock.return_value[method]
        logged == [mock EXCEPT !.call_args_list = Append(@, <<method, arg>>)]
    IN  IF se.set
        THEN IF se.items = <<>>
             THEN [ret |-> PyNone, raised |-> TRUE, mock |-> logged]
             ELSE [ret |-> Head(se.items), raised |-> FALSE,
                   mock |-> [logged EXCEPT !.side_effect[method].items = Tail(@)]]
        ELSE [ret |-> IF rv = DEFAULT THEN ChildMock ELSE rv,
              raised |-> FALSE, mock |-> logged]

(***************************************************************************)
(* The runtime's inputs.                                                   *)
(***************************************************************************)
\* sys.version_info of the interpreters that can import the file.
PyVersions == { <<3, minor, 0>> : minor \in MinMinor..MaxMinor }
\* end_time - start_time: the sleep lasts at least its length.
Elapsed == { SleepMs + k * SleepMs : k \in 0..MaxDelaySteps }

VARIABLES
    pc,                  \* what the runner executes next
    current,             \* the test method being run, "none" between tests
    previous,            \* the test method that ran last, "none" at first
    remaining,           \* the test methods still to run
    database_connection, \* TestFeedbackTracker.database_connection
    feedback_entry,      \* self.feedback_entry of each test's instance
    mock_db,             \* local mock_db of the body that ran last
    result,              \* local result of the body that ran last
    first_attempt,       \* locals of test_previous_bug_fix
    second_attempt,
    verdict,             \* the runner's result per test
    python_version,      \* sys.version_info
    sleep_elapsed,       \* what end_time - start_time measures, in ms
    setUpClassCalls,     \* how often each fixture method and body has run
    tearDownClassCalls,
    setUpCalls,
    bodyCalls,
    tearDownCalls,
    exit_status          \* the process exit status, -1 while running

vars ==
    << pc, current, previous, remaining, database_connection, feedback_entry,
       mock_db, result, first_attempt, second_attempt, verdict, python_version,
       sleep_elapsed, setUpClassCalls, tearDownClassCalls, setUpCalls,
       bodyCalls, tearDownCalls, exit_status >>

runner == << pc, current, previous, remaining >>
locals == << mock_db, result, first_attempt, second_attempt >>
inputs == << python_version, sleep_elapsed >>
counts ==
    << setUpClassCalls, tearDownClassCalls, setUpCalls, bodyCalls,
       tearDownCalls >>

\* The state when unittest.main() has loaded the class: one instance per test
\* method, none of which has a feedback_entry yet.
Init ==
    /\ pc = "setUpClass"
    /\ current = "none"
    /\ previous = "none"
    /\ remaining = Tests
    /\ database_connection = Unset
    /\ feedback_entry = [t \in Tests |-> Unset]
    /\ mock_db = MagicMock
    /\ result = Unset
    /\ first_attempt = Unset
    /\ second_attempt = Unset
    /\ verdict = [t \in Tests |-> "notrun"]
    /\ python_version \in PyVersions
    /\ sleep_elapsed \in Elapsed
    /\ setUpClassCalls = 0
    /\ tearDownClassCalls = 0
    /\ setUpCalls = [t \in Tests |-> 0]
    /\ bodyCalls = [t \in Tests |-> 0]
    /\ tearDownCalls = [t \in Tests |-> 0]
    /\ exit_status = -1

(***************************************************************************)
(* The runner: unittest.main().                                            *)
(***************************************************************************)
\* A mutant of SuiteFinished: the class is torn down at any pause.
SuiteFinishedEarly == TRUE

\* The suite is over when no test method is left.
SuiteFinished == remaining = {}

\* A mutant of AfterBody: a check that does not pass ends the run.
AfterBodyAbort(outcome) == IF outcome = "pass" THEN "tearDown" ELSE "exit"

\* Where the runner goes after a body, whatever its outcome: to tearDown.
AfterBody(outcome) == "tearDown"

\* A mutant of ExitStatus: the process always reports success.
ExitStatusAlwaysZero(v) == 0

\* sys.exit(not result.wasSuccessful()): 0 when no check failed or errored.
ExitStatus(v) == IF \A t \in Tests : v[t] = "pass" THEN 0 ELSE 1

\* What the runner records when a body returns or raises.
Finish(t, outcome) ==
    /\ verdict' = [verdict EXCEPT ![t] = outcome]
    /\ bodyCalls' = [bodyCalls EXCEPT ![t] = @ + 1]
    /\ pc' = AfterBody(outcome)
    /\ UNCHANGED << current, previous, remaining, database_connection, inputs,
                    setUpClassCalls, tearDownClassCalls, setUpCalls,
                    tearDownCalls, exit_status >>

\* The body of test t is the next thing to run.
AtBody(t) == pc = "body" /\ current = t

(***************************************************************************)
(* Fixtures.                                                               *)
(***************************************************************************)
\* cls.database_connection = "Mock Database Connection"
setUpClass ==
    /\ pc = "setUpClass"
    /\ database_connection' = MockConnection
    /\ setUpClassCalls' = setUpClassCalls + 1
    /\ pc' = "next"
    /\ UNCHANGED << current, previous, remaining, feedback_entry, locals,
                    verdict, inputs, tearDownClassCalls, setUpCalls, bodyCalls,
                    tearDownCalls, exit_status >>

\* cls.database_connection = None
tearDownClass ==
    /\ pc = "next"
    /\ SuiteFinished
    /\ database_connection' = PyNone
    /\ tearDownClassCalls' = tearDownClassCalls + 1
    /\ pc' = "exit"
    /\ UNCHANGED << current, previous, remaining, feedback_entry, locals,
                    verdict, inputs, setUpClassCalls, setUpCalls, bodyCalls,
                    tearDownCalls, exit_status >>

\* A mutant of setUp that does not create the record.
setUpNoRecord(t) ==
    /\ pc = "next"
    /\ t \in remaining
    /\ remaining' = remaining \ {t}
    /\ current' = t
    /\ setUpCalls' = [setUpCalls EXCEPT ![t] = @ + 1]
    /\ pc' = "body"
    /\ UNCHANGED << previous, database_connection, feedback_entry, locals,
                    verdict, inputs, setUpClassCalls, tearDownClassCalls,
                    bodyCalls, tearDownCalls, exit_status >>

\* A mutant of setUp that builds the record for the first test only, as a
\* fixture created once for the whole class would be.
setUpOnce(t) ==
    /\ pc = "next"
    /\ t \in remaining
    /\ remaining' = remaining \ {t}
    /\ current' = t
    /\ feedback_entry' =
           IF previous = "none"
           THEN [feedback_entry EXCEPT ![t] = Fixture]
           ELSE feedback_entry
    /\ setUpCalls' = [setUpCalls EXCEPT ![t] = @ + 1]
    /\ pc' = "body"
    /\ UNCHANGED << previous, database_connection, locals, verdict, inputs,
                    setUpClassCalls, tearDownClassCalls, bodyCalls,
                    tearDownCalls, exit_status >>

\* The runner picks test t; self.feedback_entry = {...} on t's instance.
setUp(t) ==
    /\ pc = "next"
    /\ t \in remaining
    /\ remaining' = remaining \ {t}
    /\ current' = t
    /\ feedback_entry' = [feedback_entry EXCEPT ![t] = Fixture]
    /\ setUpCalls' = [setUpCalls EXCEPT ![t] = @ + 1]
    /\ pc' = "body"
    /\ UNCHANGED << previous, database_connection, locals, verdict, inputs,
                    setUpClassCalls, tearDownClassCalls, bodyCalls,
                    tearDownCalls, exit_status >>

\* A mutant of tearDown that also drops the class's connection marker.
tearDownDropsConnection ==
    /\ pc = "tearDown"
    /\ feedback_entry' = [feedback_entry EXCEPT ![current] = PyNone]
    /\ database_connection' = PyNone
    /\ tearDownCalls' = [tearDownCalls EXCEPT ![current] = @ + 1]
    /\ previous' = current
    /\ current' = "none"
    /\ pc' = "next"
    /\ UNCHANGED << remaining, locals, verdict, inputs, setUpClassCalls,
                    tearDownClassCalls, setUpCalls, bodyCalls, exit_status >>

\* self.feedback_entry = None, then the runner moves on.
tearDown ==
    /\ pc = "tearDown"
    /\ feedback_entry' = [feedback_entry EXCEPT ![current] = PyNone]
    /\ tearDownCalls' = [tearDownCalls EXCEPT ![current] = @ + 1]
    /\ previous' = current
    /\ current' = "none"
    /\ pc' = "next"
    /\ UNCHANGED << remaining, database_connection, locals, verdict, inputs,
                    setUpClassCalls, tearDownClassCalls, setUpCalls, bodyCalls,
                    exit_status >>

(***************************************************************************)
(* The eight check bodies.  Reading an attribute that was never assigned,  *)
(* or subscripting None, raises: the runner records an error.              *)
(***************************************************************************)
\* assertEqual(self.feedback_entry["course"], "CS101")
test_add_feedback ==
    /\ AtBody("test_add_feedback")
    /\ LET entry == feedback_entry[current]
       IN  Finish(current,
                  IF entry.tag # "dict" THEN "error"
                  ELSE IF entry.course = "CS101" THEN "pass" ELSE "fail")
    /\ UNCHANGED << feedback_entry, locals >>

\* A mutant of test_remove_feedback that forgets the overwrite.
test_remove_feedback_NoOverwrite ==
    /\ AtBody("test_remove_feedback")
    /\ Finish(current, IF feedback_entry[current] = PyNone THEN "pass" ELSE "fail")
    /\ UNCHANGED << feedback_entry, locals >>

\* self.feedback_entry = None; assertIsNone(self.feedback_entry)
test_remove_feedback ==
    /\ AtBody("test_remove_feedback")
    /\ feedback_entry' = [feedback_entry EXCEPT ![current] = PyNone]
    /\ Finish(current, IF feedback_entry'[current] = PyNone THEN "pass" ELSE "fail")
    /\ UNCHANGED locals

\* mock_db.insert_feedback.return_value = True
\* result = mock_db.insert_feedback(self.feedback_entry); assertTrue(result)
test_database_integration ==
    /\ AtBody("test_database_integration")
    /\ LET entry == feedback_entry[current]
           configured == SetReturnValue(MagicMock, "insert_feedback", PyBool(TRUE))
           call == MockCall(configured, "insert_feedback", entry)
       IN  IF entry = Unset
           THEN /\ Finish(current, "error")
                /\ mock_db' = configured
                /\ UNCHANGED result
           ELSE /\ mock_db' = call.mock
                /\ result' = call.ret
                /\ Finish(current,
                          IF call.raised THEN "error"
                          ELSE IF Truthy(call.ret) THEN "pass" ELSE "fail")
    /\ UNCHANGED << feedback_entry, first_attempt, second_attempt >>

\* mock_db.get_feedback.return_value = self.feedback_entry
\* result = mock_db.get_feedback(12345); assertEqual(result, self.feedback_entry)
test_feedback_retrieval ==
    /\ AtBody("test_feedback_retrieval")
    /\ LET entry == feedback_entry[current]
           configured == SetReturnValue(MagicMock, "get_feedback", entry)
           call == MockCall(configured, "get_feedback", PyInt(StudentId))
       IN  IF entry = Unset
           THEN /\ Finish(current, "error")
                /\ mock_db' = MagicMock
                /\ UNCHANGED result
           ELSE /\ mock_db' = call.mock
                /\ result' = call.ret
                /\ Finish(current,
                          IF call.raised THEN "error"
                          ELSE IF call.ret = entry THEN "pass" ELSE "fail")
    /\ UNCHANGED << feedback_entry, first_attempt, second_attempt >>

\* time.sleep(0.1) between two clock readings; assertLess(elapsed, 0.5)
test_feedback_submission_time ==
    /\ AtBody("test_feedback_submission_time")
    /\ Finish(current, IF sleep_elapsed < ThresholdMs THEN "pass" ELSE "fail")
    /\ UNCHANGED << feedback_entry, locals >>

\* mock_db.add_feedback.return_value = False
\* result = mock_db.add_feedback({... "feedback": malicious_input})
\* assertFalse(result)
test_sql_injection_protection ==
    /\ AtBody("test_sql_injection_protection")
    /\ LET configured == SetReturnValue(MagicMock, "add_feedback", PyBool(FALSE))
           call == MockCall(configured, "add_feedback",
                            FeedbackDict(StudentId, "CS101", malicious_input))
       IN  /\ mock_db' = call.mock
           /\ result' = call.ret
           /\ Finish(current,
                     IF call.raised THEN "error"
                     ELSE IF ~Truthy(call.ret) THEN "pass" ELSE "fail")
    /\ UNCHANGED << feedback_entry, first_attempt, second_attempt >>

\* assertGreaterEqual(sys.version_info, (3, 6))
test_system_compatibility ==
    /\ AtBody("test_system_compatibility")
    /\ Finish(current, IF TupleGE(python_version, MinVersion) THEN "pass" ELSE "fail")
    /\ UNCHANGED << feedback_entry, locals >>

\* mock_db.get_feedback.side_effect = ["Old Feedback", "Fixed Feedback"]
\* two calls of get_feedback(12345); assertNotEqual(first, second)
test_previous_bug_fix ==
    /\ AtBody("test_previous_bug_fix")
    /\ LET configured == SetSideEffect(MagicMock, "get_feedback",
                             << PyStr("Old Feedback"), PyStr("Fixed Feedback") >>)
           call1 == MockCall(configured, "get_feedback", PyInt(StudentId))
           call2 == MockCall(call1.mock, "get_feedback", PyInt(StudentId))
       IN  IF call1.raised
           THEN /\ mock_db' = call1.mock
                /\ UNCHANGED << first_attempt, second_attempt >>
                /\ Finish(current, "error")
           ELSE IF call2.raised
           THEN /\ mock_db' = call2.mock
                /\ first_attempt' = call1.ret
                /\ UNCHANGED second_attempt
                /\ Finish(current, "error")
           ELSE /\ mock_db' = call2.mock
                /\ first_attempt' = call1.ret
                /\ second_attempt' = call2.ret
                /\ Finish(current,
                          IF call1.ret # call2.ret THEN "pass" ELSE "fail")
    /\ UNCHANGED << feedback_entry, result >>

\* unittest.main() ends the process with the run's status.
Exit ==
    /\ pc = "exit"
    /\ exit_status' = ExitStatus(verdict)
    /\ pc' = "done"
    /\ UNCHANGED << current, previous, remaining, database_connection,
                    feedback_entry, locals, verdict, inputs, counts >>

Next ==
    \/ setUpClass
    \/ \E t \in Tests : setUp(t)
    \/ test_add_feedback
    \/ test_remove_feedback
    \/ test_database_integration
    \/ test_feedback_retrieval
    \/ test_feedback_submission_time
    \/ test_sql_injection_protection
    \/ test_system_compatibility
    \/ test_previous_bug_fix
    \/ tearDown
    \/ tearDownClass
    \/ Exit

Spec == Init /\ [][Next]_vars

(***************************************************************************)
(* Properties.                                                             *)
(***************************************************************************)
\* The verdict the runtime's inputs alone give each check: the latency check
\* passes when the sleep stayed under the threshold, the version check when
\* the interpreter is 3.6 or later, every other check passes.
Expected(t) ==
    CASE t = "test_feedback_submission_time" ->
             IF sleep_elapsed < ThresholdMs THEN "pass" ELSE "fail"
      [] t = "test_system_compatibility" ->
             IF \/ python_version[1] > 3
                \/ python_version[1] = 3 /\ python_version[2] >= 6
             THEN "pass" ELSE "fail"
      [] OTHER -> "pass"

\* Every check has been set up, run and torn down exactly once.
AllRanOnce ==
    \A t \in Tests : setUpCalls[t] = 1 /\ bodyCalls[t] = 1 /\ tearDownCalls[t] = 1

\* C1 (fixture isolation): whenever a check body is about to start, the
\* feedback_entry it sees is the fixed record of setUp, whichever checks ran
\* before it; and once a check's tearDown has run its feedback_entry is None.
C1_FixtureIsolation ==
    /\ \A t \in Tests : AtBody(t) => feedback_entry[t] = Fixture
    /\ \A t \in Tests : tearDownCalls[t] > 0 => feedback_entry[t] = PyNone

\* A body is about to start right after the removal check was torn down.
C1_Witness ==
    /\ pc = "body"
    /\ previous = "test_remove_feedback"
    /\ feedback_entry[previous] = PyNone
    /\ feedback_entry[current] = Fixture

C2_Counts ==
    /\ setUpClassCalls <= 1
    /\ tearDownClassCalls <= 1
    /\ (\E t \in Tests : setUpCalls[t] > 0) => setUpClassCalls = 1
    /\ tearDownClassCalls = 1 => AllRanOnce
    /\ pc = "done" => setUpClassCalls = 1 /\ tearDownClassCalls = 1
    /\ \A t \in Tests :
          /\ setUpCalls[t] <= 1
          /\ bodyCalls[t] <= setUpCalls[t]
          /\ tearDownCalls[t] <= bodyCalls[t]
          /\ setUpCalls[t] > tearDownCalls[t] => t = current

C2_Steps ==
    /\ \A t \in Tests :
          setUpCalls'[t] # setUpCalls[t] => pc' = "body" /\ current' = t
    /\ pc = "body" =>
          /\ bodyCalls' = [bodyCalls EXCEPT ![current] = @ + 1]
          /\ pc' = "tearDown"
          /\ current' = current
    /\ pc = "tearDown" =>
          /\ tearDownCalls' = [tearDownCalls EXCEPT ![current] = @ + 1]
          /\ pc' = "next"

\* C2 (lifecycle ordering): setUpClass runs once and before any setUp,
\* tearDownClass once and only after every check was torn down; each body
\* runs right after its own setUp and is followed at once by its own
\* tearDown, and at most one check is between its setUp and its tearDown.
C2_LifecycleOrdering == []C2_Counts /\ [][C2_Steps]_vars

\* The run is over and every fixture method ran the expected number of times.
C2_Witness ==
    /\ pc = "done"
    /\ setUpClassCalls = 1
    /\ tearDownClassCalls = 1
    /\ AllRanOnce

C3_State ==
    /\ \A t \in Tests :
          verdict[t] = "fail" =>
              \/ t = current /\ pc = "tearDown" /\ ENABLED tearDown
              \/ tearDownCalls[t] = 1
    /\ (pc = "next" /\ \E t \in Tests : verdict[t] = "fail") =>
          \A t \in remaining : ENABLED setUp(t)
    /\ pc = "done" =>
          /\ AllRanOnce
          /\ \A t \in Tests : verdict[t] = Expected(t)

C3_Steps ==
    \A t \in Tests :
        verdict'[t] # verdict[t] => t = current /\ verdict[t] = "notrun"

\* C3 (failure independence): a failing assertion is recorded against the
\* running check alone; that check's tearDown still runs, every check still
\* to come can still be set up, and at the end of the run every check was
\* set up, run and torn down, and has the verdict it has when nothing else
\* fails.
C3_FailureIndependence == []C3_State /\ [][C3_Steps]_vars

\* The latency check failed early and the run still finished with the others.
C3_Witness ==
    /\ pc = "done"
    /\ verdict["test_feedback_submission_time"] = "fail"
    /\ verdict["test_add_feedback"] = "pass"
    /\ previous # "test_feedback_submission_time"
    /\ AllRanOnce

\* C4 (exit status): the process ends only after all eight bodies ran, and
\* its exit status is 0 exactly when every check passed, 1 otherwise.
C4_ExitStatus ==
    /\ pc # "done" => exit_status = -1
    /\ pc = "done" =>
          /\ \A t \in Tests : bodyCalls[t] = 1
          /\ exit_status \in {0, 1}
          /\ exit_status = 0 <=> \A t \in Tests : verdict[t] = "pass"

\* The process ended with a non-zero status because one check failed.
C4_Witness ==
    /\ pc = "done"
    /\ exit_status = 1
    /\ verdict["test_system_compatibility"] = "fail"
    /\ verdict["test_feedback_submission_time"] = "pass"

C5_State ==
    /\ pc \in {"body", "tearDown"} => database_connection = MockConnection
    /\ (pc = "next" /\ current = "none") => database_connection = MockConnection
    /\ pc \in {"exit", "done"} => database_connection = PyNone

C5_Steps ==
    database_connection' # database_connection =>
        \/ pc = "setUpClass" /\ database_connection' = MockConnection
        \/ pc = "next" /\ remaining = {} /\ database_connection' = PyNone

\* C5 (suite-level handle): database_connection changes only in setUpClass,
\* to the marker, and in tearDownClass, to None; it holds the marker through
\* every setUp, body and tearDown and is None once the run is over.
C5_HandleFrame == []C5_State /\ [][C5_Steps]_vars

\* A later check is being torn down with the marker still in place.
C5_Witness ==
    /\ pc = "tearDown"
    /\ previous # "none"
    /\ database_connection = MockConnection

\* C6 (non-regression pair): once test_previous_bug_fix has run, its two
\* calls of get_feedback(12345) returned "Old Feedback" and then
\* "Fixed Feedback", the two values differ, and the check passed.
C6_SequencedPair ==
    bodyCalls["test_previous_bug_fix"] > 0 =>
        /\ first_attempt = PyStr("Old Feedback")
        /\ second_attempt = PyStr("Fixed Feedback")
        /\ first_attempt # second_attempt
        /\ verdict["test_previous_bug_fix"] = "pass"
        /\ (pc = "tearDown" /\ current = "test_previous_bug_fix") =>
              mock_db.call_args_list =
                  << <<"get_feedback", PyInt(StudentId)>>,
                     <<"get_feedback", PyInt(StudentId)>> >>

\* The non-regression check has just run both calls.
C6_Witness ==
    /\ pc = "tearDown"
    /\ current = "test_previous_bug_fix"
    /\ Len(mock_db.call_args_list) = 2
    /\ second_attempt = PyStr("Fixed Feedback")

\* C7 (retrieval round trip): when test_feedback_retrieval has run, the value
\* get_feedback(12345) returned equals the record of setUp in all three
\* fields, the instance's feedback_entry is still that record, and the check
\* passed.
C7_RetrievalRoundTrip ==
    (pc = "tearDown" /\ current = "test_feedback_retrieval") =>
        /\ result = FeedbackDict(StudentId, "CS101", "Great course!")
        /\ feedback_entry[current] = Fixture
        /\ mock_db.call_args_list = << <<"get_feedback", PyInt(StudentId)>> >>
        /\ verdict[current] = "pass"

\* The retrieval check has just returned.
C7_Witness ==
    /\ pc = "tearDown"
    /\ current = "test_feedback_retrieval"
    /\ result = Fixture

\* C8 (removal): when test_remove_feedback has run, its feedback_entry is
\* None and the check passed.
C8_Removal ==
    (pc = "tearDown" /\ current = "test_remove_feedback") =>
        /\ feedback_entry[current] = PyNone
        /\ verdict[current] = "pass"

\* The removal check has just returned.
C8_Witness ==
    /\ pc = "tearDown"
    /\ current = "test_remove_feedback"
    /\ bodyCalls[current] = 1
    /\ feedback_entry[current] = PyNone

\* C9 (order insensitivity): in every order of the checks, a check that has
\* run has the verdict the runtime's inputs alone determine, whatever ran
\* before it.
C9_OrderInsensitive ==
    \A t \in Tests : verdict[t] \in {"notrun", Expected(t)}

\* Payloads and records a caller could pass to the mocked methods.
Payloads == { malicious_input, "Great course!", "" }
Records ==
    { Fixture, PyNone, FeedbackDict(0, "", ""),
      FeedbackDict(StudentId, "CS101", malicious_input) }

\* test_add_feedback ran last, after the removal check and all the others,
\* and passed.
C9_Witness ==
    /\ pc = "tearDown"
    /\ current = "test_add_feedback"
    /\ remaining = {}
    /\ verdict[current] = "pass"
    /\ verdict["test_remove_feedback"] = "pass"

\* C10 (argument independence): after the malicious-input check, result is
\* False and the configured add_feedback answers False to every payload,
\* benign ones included; after the insertion check, result is True and the
\* configured insert_feedback answers True to every record; in both checks
\* the instance's feedback_entry is still the record of setUp.
C10_ArgumentIndependence ==
    /\ (pc = "tearDown" /\ current = "test_sql_injection_protection") =>
          /\ result = PyBool(FALSE)
          /\ verdict[current] = "pass"
          /\ feedback_entry[current] = Fixture
          /\ \A p \in Payloads :
                LET call == MockCall(mock_db, "add_feedback",
                                     FeedbackDict(StudentId, "CS101", p))
                IN  ~call.raised /\ call.ret = PyBool(FALSE)
    /\ (pc = "tearDown" /\ current = "test_database_integration") =>
          /\ result = PyBool(TRUE)
          /\ verdict[current] = "pass"
          /\ feedback_entry[current] = Fixture
          /\ \A r \in Records :
                LET call == MockCall(mock_db, "insert_feedback", r)
                IN  ~call.raised /\ call.ret = PyBool(TRUE)

\* The malicious-input check has just returned with the payload recorded.
C10_Witness ==
    /\ pc = "tearDown"
    /\ current = "test_sql_injection_protection"
    /\ mock_db.call_args_list =
           << <<"add_feedback", FeedbackDict(StudentId, "CS101", malicious_input)>> >>
    /\ result = PyBool(FALSE)

====
